---------------------------- MODULE Spec2Model ----------------------------
(***************************************************************************)
(* Deep-research assistant: the Gradio callbacks of deep_research.py and   *)
(* the pipeline of research_manager.py.                                    *)
(*                                                                         *)
(* One global `session` is shared by every browser tab (user).  A callback *)
(* is split only where its code blocks on a remote agent call; the code    *)
(* between two agent calls is one atomic step.  run_research never reads   *)
(* `session` after it has started the pipeline and writes nothing that is  *)
(* shared, so one pipeline slot is modelled and only the Run Research      *)
(* clicks of the users in Runners; the generate_questions callbacks of     *)
(* every user interleave with it.                                          *)
(***************************************************************************)
EXTENDS Integers, Sequences, FiniteSets, TLC

(***************************************************************************)
(* Bounds of the model.                                                    *)
(***************************************************************************)
\* largest number of questions the product-manager agent returns
MaxGenerated == 2
\* number of leading answer boxes a user may have typed into
MaxFilled == 2
\* largest number of searches the planner agent returns
MaxSearches == 2
\* longest transaction log of an Account
MaxTransactions == 4

\* deep_research.py:22, the number of answer textboxes of the page
MAX_QUESTIONS == 10

Users == {"u1", "u2"}
\* the users whose Run Research clicks are modelled
Runners == {"u1"}

\* the topic each user types into the query textbox
QueryOf(u) == IF u = "u1" THEN "topic1" ELSE "topic2"

Min(a, b) == IF a < b THEN a ELSE b

(***************************************************************************)
(* Values of a textbox: None or a string, a string being a sequence of     *)
(* characters.                                                             *)
(***************************************************************************)
None == [isNone |-> TRUE, chars |-> << >>]
Str(cs) == [isNone |-> FALSE, chars |-> cs]

Whitespace == {" "}

RECURSIVE lstrip(_)
lstrip(cs) ==
    IF cs # << >> /\ Head(cs) \in Whitespace THEN lstrip(Tail(cs)) ELSE cs

RECURSIVE rstrip(_)
rstrip(cs) ==
    IF cs # << >> /\ cs[Len(cs)] \in Whitespace
    THEN rstrip(SubSeq(cs, 1, Len(cs) - 1))
    ELSE cs

\* str.strip(): leading and trailing whitespace removed
strip(cs) == rstrip(lstrip(cs))

\* `resp is not None and str(resp).strip()` as a truth value
IsValidResponse(resp) == ~resp.isNone /\ strip(resp.chars) # << >>

\* what box i can hold: nothing, blanks, or the user's answer to question i
AnswerText(i) ==
    IF i % 3 = 1 THEN <<"a">> ELSE IF i % 3 = 2 THEN <<" ", "b">> ELSE <<"c", " ">>

BoxValues(i) == {None, Str(<< >>), Str(<<" ">>), Str(AnswerText(i))}

\* the MAX_QUESTIONS textbox values of one click: the boxes after the first
\* MaxFilled were never typed into and hold the empty string
AllResponses ==
    {[i \in 1..MAX_QUESTIONS |-> IF i <= MaxFilled THEN f[i] ELSE Str(<< >>)] :
        f \in {g \in [1..MaxFilled -> UNION {BoxValues(i) : i \in 1..MaxFilled}] :
                 \A i \in 1..MaxFilled : g[i] \in BoxValues(i)}}

(***************************************************************************)
(* The session and generate_questions.                                     *)
(***************************************************************************)
\* the n questions the product-manager agent returns for a query
Questions(query, n) == [i \in 1..n |-> [question |-> <<query, i>>]]

_create_response_components(questions) ==
    [i \in 1..Len(questions) |->
        [label |-> <<"Question", i, questions[i].question>>, lines |-> 2]]

ResearchSession ==
    [current_questions |-> << >>, current_query |-> "", response_components |-> << >>]

VARIABLES
    session,    \* the module-level ResearchSession
    gen,        \* gen[u]: "idle", or "waiting" for the product-manager agent
    ui          \* ui[u], u in Runners: what generate_questions last returned to u's page

sessionVars == <<session, gen, ui>>

NoUI == [questions |-> << >>, visible |-> FALSE, response_components |-> << >>, error |-> FALSE]

\* generate_questions up to its agent call
GenerateQuestionsCall(u) ==
    /\ gen[u] = "idle"
    /\ session' = [session EXCEPT !.current_query = QueryOf(u)]
    /\ gen' = [gen EXCEPT ![u] = "waiting"]
    /\ UNCHANGED ui

\* the agent returned n questions: generate_questions to its return
GenerateQuestionsReturn(u, n) ==
    /\ gen[u] = "waiting"
    /\ LET qs == Questions(QueryOf(u), n)
           rc == _create_response_components(qs)
       IN /\ session' = [session EXCEPT !.current_questions = qs,
                                        !.response_components = rc]
          /\ ui' = IF u \in Runners
                   THEN [ui EXCEPT ![u] = [questions |-> qs, visible |-> TRUE,
                                           response_components |-> rc, error |-> FALSE]]
                   ELSE ui
    /\ gen' = [gen EXCEPT ![u] = "idle"]

\* the agent call raised: the except branch of generate_questions
GenerateQuestionsFail(u) ==
    /\ gen[u] = "waiting"
    /\ ui' = IF u \in Runners
             THEN [ui EXCEPT ![u] = [questions |-> << >>, visible |-> FALSE,
                                     response_components |-> << >>, error |-> TRUE]]
             ELSE ui
    /\ gen' = [gen EXCEPT ![u] = "idle"]
    /\ UNCHANGED session

SessionInit ==
    /\ session = ResearchSession
    /\ gen = [u \in Users |-> "idle"]
    /\ ui = [u \in Runners |-> NoUI]

(***************************************************************************)
(* run_research: validation and formatting (deep_research.py).             *)
(***************************************************************************)
RECURSIVE valid_responses(_)
\* [resp for resp in responses if resp is not None and str(resp).strip()]
valid_responses(responses) ==
    IF responses = << >> THEN << >>
    ELSE IF IsValidResponse(Head(responses))
         THEN <<Head(responses)>> \o valid_responses(Tail(responses))
         ELSE valid_responses(Tail(responses))

\* return values of the run_research callback
NoReturn == [kind |-> "none", expected |-> 0, actual |-> 0, chunks |-> << >>, text |-> << >>]
ValidationMessage(expected, actual) ==
    [kind |-> "validation", expected |-> expected, actual |-> actual, chunks |-> << >>,
     text |-> <<"Please provide answers for all ", expected,
                " questions. You provided ", actual, " answers.">>]
ErrorMessage(e) ==
    [kind |-> "error", expected |-> 0, actual |-> 0, chunks |-> << >>,
     text |-> <<"Error running research: ", e.msg>>]
\* result += str(chunk) + "\n\n" for every chunk of the generator
ResultText(chunks) ==
    [kind |-> "result", expected |-> 0, actual |-> 0, chunks |-> chunks,
     text |-> [i \in 1..Len(chunks) |-> <<chunks[i], "\n\n">>]]

\* a slip: the responses are counted, not the non-empty ones
_validate_responses_unfiltered(responses, sess) ==
    IF Len(responses) # Len(sess.current_questions)
    THEN ValidationMessage(Len(sess.current_questions), Len(responses))
    ELSE NoReturn

\* the message of _validate_responses, or NoReturn for Python's None
_validate_responses(responses, sess) ==
    IF Len(valid_responses(responses)) # Len(sess.current_questions)
    THEN ValidationMessage(Len(sess.current_questions), Len(valid_responses(responses)))
    ELSE NoReturn

\* one line "{i}. {question} - Response: {response}\n" per zipped pair
_format_questions_and_responses(responses, sess) ==
    LET valid == valid_responses(responses)
        n == Min(Len(sess.current_questions), Len(valid))
    IN [i \in 1..n |-> [num |-> i,
                        question |-> sess.current_questions[i].question,
                        response |-> valid[i]]]

\* a slip: every textbox of the page is passed on
relevant_responses_all(all_responses, sess) == all_responses

\* all_responses[:len(session.current_questions)] if session.current_questions else []
relevant_responses(all_responses, sess) ==
    IF sess.current_questions # << >>
    THEN SubSeq(all_responses, 1, Min(Len(all_responses), Len(sess.current_questions)))
    ELSE << >>

(***************************************************************************)
(* The pipeline (research_manager.py).                                     *)
(***************************************************************************)
VARIABLES
    pc,             \* "idle" | "planning" | "searching" | "writing" | "emailing"
    caller,         \* the user whose click started the last run_research
    events,         \* this run's yields, agent calls and task completions, in order
    tasks,          \* tasks[i]: "running" | "ok" | "failed" (its _search returned None)
    doneq,          \* completed tasks as_completed has not handed out yet
    results,        \* the list `results` of _perform_searches
    num_completed,  \* the counter of _perform_searches
    report,         \* the ReportData of the writer, "" before it
    ret             \* what run_research last returned to the caller's page

runVars == <<pc, caller, events, tasks, doneq, results, num_completed, report, ret>>

\* the trading simulation (engineering_team/output), a program of its own
VARIABLES
    account,        \* the Account object in use, NoAccount before it is constructed
    returned,       \* the last Account method called and what it returned
    reply           \* what the last handler of app.py returned to the page

acctVars == <<account, returned, reply>>

vars == <<session, gen, ui, pc, caller, events, tasks, doneq, results, num_completed,
          report, ret, account, returned, reply>>

Yield(v) == [ev |-> "yield", name |-> v, arg |-> << >>]
Call(agent, input) == [ev |-> "call", name |-> agent, arg |-> input]
Done(i, outcome) == [ev |-> "done", name |-> outcome, arg |-> i]

RECURSIVE SelectEv(_, _)
SelectEv(es, kind) ==
    IF es = << >> THEN << >>
    ELSE IF Head(es).ev = kind THEN <<Head(es)>> \o SelectEv(Tail(es), kind)
         ELSE SelectEv(Tail(es), kind)

\* the elements the generator has yielded so far
out == LET ys == SelectEv(events, "yield") IN [i \in 1..Len(ys) |-> ys[i].name]
\* the agents called so far, in call order
calls == SelectEv(events, "call")
CallsTo(agent) == {i \in 1..Len(calls) : calls[i].name = agent}

TraceURL == "https://platform.openai.com/traces/trace?trace_id=<trace_id>"

\* the plan of n searches the planner agent returns
WebSearchPlan(n) == [i \in 1..n |-> [query |-> <<"search term", i>>]]
\* str(result.final_output) of the search agent for plan item i
SearchOutput(i) == <<"summary of", i>>
\* the reports the writer agent may return
Reports == {"report A", "report B"}

\* the exceptions an agent call may raise
AgentErrors == {[type |-> "RuntimeError", msg |-> "agent failed"],
                [type |-> "Exception", msg |-> "agent failed"]}
\* what asyncio.get_event_loop() finds in the callback's thread
LoopStates == {"none", "idle", "running"}

\* the exception AsyncHelper.run_async raises when the coroutine raises e:
\* a RuntimeError out of run_until_complete or future.result() is caught by
\* `except RuntimeError` and asyncio.run is tried on the spent coroutine
run_async_raises(loop, e) ==
    IF loop # "none" /\ e.type = "RuntimeError"
    THEN IF loop = "idle"
         THEN [type |-> "RuntimeError", msg |-> "cannot reuse already awaited coroutine"]
         ELSE [type |-> "RuntimeError",
               msg |-> "asyncio.run() cannot be called from a running event loop"]
    ELSE e

NoReport == [markdown_report |-> ""]

\* run_with_responses up to the planner call of _execute_research_pipeline
StartEvents(query, questions_and_responses) ==
    <<Yield(TraceURL),
      Yield("Starting research with your responses..."),
      Call("planner", [query |-> query,
                       questions_and_responses |-> questions_and_responses])>>

\* a slip: the searches are dispatched before the progress string is yielded
PlannedEvents_late(plan) ==
    [i \in 1..Len(plan) |-> Call("search", i)]
    \o <<Yield("Searches planned, starting to search...")>>

\* _execute_research_pipeline from the planner's return to the first await of
\* _perform_searches: one task per plan item, each calling the search agent
PlannedEvents(plan) ==
    <<Yield("Searches planned, starting to search...")>>
    \o [i \in 1..Len(plan) |-> Call("search", i)]

\* from the return of _perform_searches to the writer call
SearchedEvents(query, search_results) ==
    <<Yield("Searches complete, writing report..."),
      Call("writer", [query |-> query, search_results |-> search_results])>>

\* a slip: the report is yielded as soon as it is written
WrittenEvents_surfacing(rep) ==
    <<Yield("Report written, sending email..."),
      Yield(rep.markdown_report),
      Call("email", rep.markdown_report)>>

\* from the writer's return to the email call
WrittenEvents(rep) ==
    <<Yield("Report written, sending email..."),
      Call("email", rep.markdown_report)>>

\* a slip: the report is yielded before the last progress string
EmailedEvents_swapped(rep) ==
    <<Yield(rep.markdown_report), Yield("Email sent, research complete")>>

\* from the email agent's return to the end of the generator
EmailedEvents(rep) ==
    <<Yield("Email sent, research complete"), Yield(rep.markdown_report)>>

\* the query this run was started with
RunQuery == calls[1].arg.query

\* a slip: the except branch returns the progress collected so far
_execute_research_except_partial(e, chunks) == ResultText(chunks)

\* the except branch of _execute_research
_execute_research_except(e, chunks) == ErrorMessage(e)

\* a slip: the loop ends as soon as no completed task is waiting
as_completed_exhausted_early == doneq = << >>

\* a slip: a stage without a single result never ends
as_completed_exhausted_nonempty == num_completed = Len(tasks) /\ results # << >>

\* the asyncio.as_completed loop of _perform_searches has handed out every task
as_completed_exhausted == num_completed = Len(tasks)

\* a slip: the None of a failed task is appended too
append_result_unchecked(rs, i, outcome) ==
    Append(rs, IF outcome = "ok" THEN SearchOutput(i) ELSE <<"None">>)

\* a slip: the results are kept in the order of the plan, as asyncio.gather
\* would return them
append_result_in_plan_order(rs, i, outcome) ==
    IF outcome # "ok" THEN rs
    ELSE LET Earlier(r) == r[2] < i
             Later(r) == r[2] > i
         IN SelectSeq(rs, Earlier) \o <<SearchOutput(i)>> \o SelectSeq(rs, Later)

\* `if result is not None: results.append(result)` for the task as_completed hands out
append_result(rs, i, outcome) ==
    IF outcome = "ok" THEN Append(rs, SearchOutput(i)) ELSE rs

\* a slip: the failure of task i cancels the tasks still running
search_except_cancelling(ts, i) ==
    [j \in DOMAIN ts |-> IF j = i \/ ts[j] = "running" THEN "failed" ELSE ts[j]]

\* the except branch of _search: task i alone ends, returning None
search_except(ts, i) == [ts EXCEPT ![i] = "failed"]

ResetRun ==
    /\ tasks' = << >>
    /\ doneq' = << >>
    /\ results' = << >>
    /\ num_completed' = 0
    /\ report' = NoReport

\* run_research(*responses), called by user u's click
run_research(u, responses) ==
    LET validation_result == _validate_responses(responses, session)
        questions_and_responses == _format_questions_and_responses(responses, session)
    IN /\ caller' = u
       /\ ResetRun
       /\ IF validation_result # NoReturn
          THEN /\ ret' = validation_result
               /\ events' = << >>
               /\ pc' = "idle"
          ELSE /\ ret' = NoReturn
               /\ events' = StartEvents(session.current_query, questions_and_responses)
               /\ pc' = "planning"

\* the click handler of the Run Research button
RunResearchWithFilteredInputs(u, all_responses) ==
    /\ pc = "idle"
    /\ run_research(u, relevant_responses(all_responses, session))
    /\ UNCHANGED sessionVars

\* the planner agent returned a plan of n searches
PlannerReturns(n) ==
    /\ pc = "planning"
    /\ events' = events \o PlannedEvents(WebSearchPlan(n))
    /\ tasks' = [i \in 1..n |-> "running"]
    /\ pc' = "searching"
    /\ UNCHANGED <<sessionVars, caller, doneq, results, num_completed, report, ret>>

\* an agent call awaited directly by the pipeline raised: nothing catches it
\* before _execute_research
PipelineRaises(stage, e, loop) ==
    /\ pc = stage
    /\ ret' = _execute_research_except(run_async_raises(loop, e), out)
    /\ pc' = "idle"
    /\ UNCHANGED <<sessionVars, caller, events, tasks, doneq, results, num_completed,
                   report>>

PlannerRaises(e, loop) == PipelineRaises("planning", e, loop)

\* the search agent returned for task i
SearchReturns(i) ==
    /\ pc = "searching"
    /\ i \in DOMAIN tasks
    /\ tasks[i] = "running"
    /\ tasks' = [tasks EXCEPT ![i] = "ok"]
    /\ doneq' = Append(doneq, i)
    /\ events' = Append(events, Done(i, "ok"))
    /\ UNCHANGED <<sessionVars, pc, caller, results, num_completed, report, ret>>

\* the search agent raised for task i
SearchRaises(i) ==
    /\ pc = "searching"
    /\ i \in DOMAIN tasks
    /\ tasks[i] = "running"
    /\ tasks' = search_except(tasks, i)
    /\ doneq' = Append(doneq, i)
    /\ events' = Append(events, Done(i, "failed"))
    /\ UNCHANGED <<sessionVars, pc, caller, results, num_completed, report, ret>>

\* one iteration of `for task in asyncio.as_completed(tasks)`
AsCompletedNext ==
    /\ pc = "searching"
    /\ doneq # << >>
    /\ UNCHANGED acctVars
    /\ results' = append_result(results, Head(doneq), tasks[Head(doneq)])
    /\ num_completed' = num_completed + 1
    /\ doneq' = Tail(doneq)
    /\ UNCHANGED <<sessionVars, pc, caller, events, tasks, report, ret>>

\* _perform_searches returns; the pipeline calls the writer
PerformSearchesReturn ==
    /\ pc = "searching"
    /\ as_completed_exhausted
    /\ UNCHANGED acctVars
    /\ events' = events \o SearchedEvents(RunQuery, results)
    /\ pc' = "writing"
    /\ UNCHANGED <<sessionVars, caller, tasks, doneq, results, num_completed, report, ret>>

WriterReturns(r) ==
    /\ pc = "writing"
    /\ report' = [markdown_report |-> r]
    /\ events' = events \o WrittenEvents(report')
    /\ pc' = "emailing"
    /\ UNCHANGED <<sessionVars, caller, tasks, doneq, results, num_completed, ret>>

WriterRaises(e, loop) == PipelineRaises("writing", e, loop)

\* the email agent returned: the generator runs to its end and async_run returns
EmailReturns ==
    /\ pc = "emailing"
    /\ events' = events \o EmailedEvents(report)
    /\ ret' = ResultText([i \in 1..Len(out) + 2 |->
                            IF i <= Len(out) THEN out[i]
                            ELSE EmailedEvents(report)[i - Len(out)].name])
    /\ pc' = "idle"
    /\ UNCHANGED <<sessionVars, caller, tasks, doneq, results, num_completed, report>>

EmailRaises(e, loop) == PipelineRaises("emailing", e, loop)

(***************************************************************************)
(* ResearchManager.run: the interactive entry point.  The generator asks   *)
(* the product-manager agent for questions, reads one answer per question  *)
(* with input(), and enters the same pipeline.  Nothing in the repository  *)
(* wraps it: an exception leaves the generator for its consumer.           *)
(***************************************************************************)
Returned(agent, output) == [ev |-> "return", name |-> agent, arg |-> output]
Input(i, chars) == [ev |-> "input", name |-> chars, arg |-> i]

\* what the user may type at the prompt of question i, up to the newline
InputLines(i) == {<< >>, <<" ">>, AnswerText(i)}

\* the questions the product-manager agent returned to this run
asked_questions == SelectEv(events, "return")[1].arg
\* the lines the user has typed so far
typed == SelectEv(events, "input")

\* the string _interactive_question_collection has built from the lines typed:
\* user_response = input("Your answer: ").strip(), one line per question
_interactive_question_collection(questions, lines) ==
    [i \in 1..Len(lines) |-> [num |-> i,
                              question |-> questions[i].question,
                              response |-> Str(strip(lines[i]))]]

\* what the consumer of the generator gets when it raises
RaisedOut(e) ==
    [kind |-> "raised", expected |-> 0, actual |-> 0, chunks |-> << >>,
     text |-> <<e.type, e.msg>>]

\* run(query) up to the agent call of _collect_user_insights
InteractiveRun(query) ==
    /\ pc = "idle"
    /\ caller' = "cli"
    /\ ResetRun
    /\ ret' = NoReturn
    /\ events' = <<Yield(TraceURL), Call("product_manager", [query |-> query])>>
    /\ pc' = "collecting"
    /\ UNCHANGED <<sessionVars, acctVars>>

\* the call of the planner that follows the collection
PlannerCall(questions, lines) ==
    Call("planner",
         [query |-> RunQuery,
          questions_and_responses |-> _interactive_question_collection(questions, lines)])

\* the agent returned n questions; without a question the loop body never runs
ProductManagerReturns(n) ==
    /\ pc = "collecting"
    /\ LET qs == Questions(RunQuery, n)
       IN IF n = 0
          THEN /\ events' = events \o <<Returned("product_manager", qs), PlannerCall(qs, << >>)>>
               /\ pc' = "planning"
          ELSE /\ events' = Append(events, Returned("product_manager", qs))
               /\ pc' = "asking"
    /\ UNCHANGED <<sessionVars, acctVars, caller, tasks, doneq, results, num_completed,
                   report, ret>>

\* one iteration of the loop of _interactive_question_collection: the user
\* types a line; after the last question the planner is called
InputAnswer(chars) ==
    /\ pc = "asking"
    /\ LET i == Len(typed) + 1
           lines == [k \in 1..i |-> IF k < i THEN typed[k].name ELSE chars]
       IN IF i = Len(asked_questions)
          THEN /\ events' = events \o <<Input(i, chars), PlannerCall(asked_questions, lines)>>
               /\ pc' = "planning"
          ELSE /\ events' = Append(events, Input(i, chars))
               /\ pc' = "asking"
    /\ UNCHANGED <<sessionVars, acctVars, caller, tasks, doneq, results, num_completed,
                   report, ret>>

\* an agent call awaited by run() raised
InteractiveRaises(stage, e) ==
    /\ pc = stage
    /\ ret' = RaisedOut(e)
    /\ pc' = "idle"
    /\ UNCHANGED <<sessionVars, acctVars, caller, events, tasks, doneq, results,
                   num_completed, report>>

\* the email agent returned: the generator yields its last two elements
InteractiveEmailReturns ==
    /\ pc = "emailing"
    /\ events' = events \o EmailedEvents(report)
    /\ pc' = "idle"
    /\ UNCHANGED <<sessionVars, acctVars, caller, tasks, doneq, results, num_completed,
                   report, ret>>

(***************************************************************************)
(* The Account class (engineering_team/output/accounts.py).  Amounts are   *)
(* dollars; every amount and price used is a whole number, on which the    *)
(* float arithmetic of the code is exact.  A method is an operator from    *)
(* the object to the object after the call and the value returned.         *)
(***************************************************************************)
NoAccount == [isNone |-> TRUE]
\* the values a method returns are named as Python prints them
NoCall == [op |-> "none", ret |-> "None"]

\* prices.get(symbol, 0.0)
get_share_price(symbol) ==
    CASE symbol = "AAPL" -> 150
      [] symbol = "TSLA" -> 700
      [] symbol = "GOOGL" -> 2500
      [] OTHER -> 0

\* a slip: the log is a list shared by every Account, so a new account
\* starts with the records of the one before it
Account_sharing(account_id, initial_deposit) ==
    [isNone |-> FALSE,
     account_id |-> account_id,
     balance |-> initial_deposit,
     initial_deposit |-> initial_deposit,
     holdings |-> [s \in {} |-> 0],
     transactions |-> IF account.isNone
                      THEN <<[type |-> "deposit", amount |-> initial_deposit]>>
                      ELSE <<account.transactions[1],
                             [type |-> "deposit", amount |-> initial_deposit]>>]

\* Account.__init__
Account(account_id, initial_deposit) ==
    [isNone |-> FALSE,
     account_id |-> account_id,
     balance |-> initial_deposit,
     initial_deposit |-> initial_deposit,
     holdings |-> [s \in {} |-> 0],
     transactions |-> <<[type |-> "deposit", amount |-> initial_deposit]>>]

\* a slip: a deposit leaves no record
deposit_unlogged(self, amount) ==
    [self |-> [self EXCEPT !.balance = @ + amount], ret |-> "None"]

deposit(self, amount) ==
    [self |-> [self EXCEPT !.balance = @ + amount,
                           !.transactions = Append(@, [type |-> "deposit",
                                                       amount |-> amount])],
     ret |-> "None"]

\* a slip: the funds are not checked
withdraw_overdrawing(self, amount) ==
    [self |-> [self EXCEPT !.balance = @ - amount,
                           !.transactions = Append(@, [type |-> "withdraw",
                                                       amount |-> amount])],
     ret |-> "True"]

\* a slip: a withdrawal of the whole balance is refused
withdraw_strict(self, amount) ==
    IF amount >= self.balance
    THEN [self |-> self, ret |-> "False"]
    ELSE [self |-> [self EXCEPT !.balance = @ - amount,
                                !.transactions = Append(@, [type |-> "withdraw",
                                                            amount |-> amount])],
          ret |-> "True"]

withdraw(self, amount) ==
    IF amount > self.balance
    THEN [self |-> self, ret |-> "False"]
    ELSE [self |-> [self EXCEPT !.balance = @ - amount,
                                !.transactions = Append(@, [type |-> "withdraw",
                                                            amount |-> amount])],
          ret |-> "True"]

\* a slip: the shares are added before the funds are checked
buy_shares_unchecked(self, symbol, quantity) ==
    LET price == get_share_price(symbol)
        total_cost == price * quantity
        held == [s \in DOMAIN self.holdings \cup {symbol} |->
                    IF s = symbol
                    THEN IF symbol \in DOMAIN self.holdings
                         THEN self.holdings[symbol] + quantity
                         ELSE quantity
                    ELSE self.holdings[s]]
    IN IF total_cost > self.balance
       THEN [self |-> [self EXCEPT !.holdings = held], ret |-> "False"]
       ELSE [self |-> [self EXCEPT !.balance = @ - total_cost,
                                   !.holdings = held,
                                   !.transactions =
                                       Append(@, [type |-> "buy", symbol |-> symbol,
                                                  quantity |-> quantity, price |-> price])],
             ret |-> "True"]

buy_shares(self, symbol, quantity) ==
    LET price == get_share_price(symbol)
        total_cost == price * quantity
    IN IF total_cost > self.balance
       THEN [self |-> self, ret |-> "False"]
       ELSE [self |-> [self EXCEPT
                          !.balance = @ - total_cost,
                          !.holdings =
                              [s \in DOMAIN self.holdings \cup {symbol} |->
                                  IF s = symbol
                                  THEN IF symbol \in DOMAIN self.holdings
                                       THEN self.holdings[symbol] + quantity
                                       ELSE quantity
                                  ELSE self.holdings[s]],
                          !.transactions =
                              Append(@, [type |-> "buy", symbol |-> symbol,
                                         quantity |-> quantity, price |-> price])],
             ret |-> "True"]

\* a slip: a symbol sold out stays in the holdings with quantity 0
sell_shares_keeping(self, symbol, quantity) ==
    IF symbol \notin DOMAIN self.holdings \/ self.holdings[symbol] < quantity
    THEN [self |-> self, ret |-> "False"]
    ELSE LET price == get_share_price(symbol)
         IN [self |-> [self EXCEPT
                          !.holdings = [@ EXCEPT ![symbol] = @ - quantity],
                          !.balance = @ + price * quantity,
                          !.transactions =
                              Append(@, [type |-> "sell", symbol |-> symbol,
                                         quantity |-> quantity, price |-> price])],
             ret |-> "True"]

sell_shares(self, symbol, quantity) ==
    IF symbol \notin DOMAIN self.holdings \/ self.holdings[symbol] < quantity
    THEN [self |-> self, ret |-> "False"]
    ELSE LET price == get_share_price(symbol)
             less == [self.holdings EXCEPT ![symbol] = @ - quantity]
             held == IF less[symbol] = 0
                     THEN [s \in DOMAIN less \ {symbol} |-> less[s]]
                     ELSE less
         IN [self |-> [self EXCEPT
                          !.holdings = held,
                          !.balance = @ + price * quantity,
                          !.transactions =
                              Append(@, [type |-> "sell", symbol |-> symbol,
                                         quantity |-> quantity, price |-> price])],
             ret |-> "True"]

RECURSIVE holdings_value(_, _)
\* the loop of calculate_portfolio_value over holdings.items()
holdings_value(holdings, symbols) ==
    IF symbols = {} THEN 0
    ELSE LET symbol == CHOOSE s \in symbols : TRUE
         IN holdings[symbol] * get_share_price(symbol)
            + holdings_value(holdings, symbols \ {symbol})

\* a slip: the shares held are not counted
calculate_portfolio_value_cash_only(self) == self.balance

calculate_portfolio_value(self) ==
    self.balance + holdings_value(self.holdings, DOMAIN self.holdings)

calculate_profit_loss(self) == calculate_portfolio_value(self) - self.initial_deposit

get_profit_loss(self) == calculate_profit_loss(self)

\* the arguments the callers of the class pass: those of test_accounts.py and
\* of test_account(), the least values of the page's sliders, an amount and a
\* quantity below them, and a symbol without a price
InitialDeposits == {0, 1000}
Amounts == {-100, 0, 500, 2000}
Symbols == {"AAPL", "TSLA", "XYZ"}
Quantities == {0, 1, 5, 10}

\* Account('user123', initial_deposit)
NewAccount(initial_deposit) ==
    /\ account.isNone
    /\ account' = Account("user123", initial_deposit)
    /\ returned' = [op |-> "__init__", ret |-> "None"]
    /\ UNCHANGED reply

\* a call of method op; the log of the model is kept within MaxTransactions
MethodCall(op, result) ==
    /\ ~account.isNone
    /\ Len(account.transactions) < MaxTransactions
    /\ account' = result.self
    /\ returned' = [op |-> op, ret |-> result.ret]
    /\ UNCHANGED reply

Deposit(amount) == MethodCall("deposit", deposit(account, amount))
Withdraw(amount) == MethodCall("withdraw", withdraw(account, amount))
BuyShares(symbol, quantity) ==
    MethodCall("buy_shares", buy_shares(account, symbol, quantity))
SellShares(symbol, quantity) ==
    MethodCall("sell_shares", sell_shares(account, symbol, quantity))

(***************************************************************************)
(* The handlers of the trading page (engineering_team/output/app.py).  The *)
(* global `account` is the variable account.  A handler returns a message: *)
(* its fixed text and the values formatted into it.                        *)
(***************************************************************************)
Message(text, args) == [text |-> text, args |-> args]
NoOutput == Message("", << >>)
PleaseCreate == Message("Please create an account first!", << >>)

\* the values the page's inputs deliver: the sliders' ranges and free text
AccountIds == {"user123", "user456"}
UIInitialDeposits == {0, 1000}
UIAmounts == {0, 500}
UISymbols == {"AAPL", "XYZ"}
UIQuantities == {1, 5}

\* the log of the model is kept within MaxTransactions
LogHasRoom == IF account.isNone THEN TRUE ELSE Len(account.transactions) < MaxTransactions

create_account(account_id, initial_deposit) ==
    /\ account' = Account(account_id, initial_deposit)
    /\ returned' = [op |-> "__init__", ret |-> "None"]
    /\ reply' = Message("Account created!",
                         <<account_id, initial_deposit, account'.balance>>)

\* `if account is None: return "Please create an account first!"`, else the
\* method call and the message for what it returned
Handler(op, result, ok, refused) ==
    /\ LogHasRoom
    /\ IF account.isNone
       THEN /\ reply' = PleaseCreate
            /\ UNCHANGED <<account, returned>>
       ELSE /\ account' = result.self
            /\ returned' = [op |-> op, ret |-> result.ret]
            /\ reply' = IF result.ret = "False" THEN refused ELSE ok

deposit_funds(amount) ==
    LET r == deposit(account, amount)
    IN Handler("deposit", r,
               Message("Deposited", <<amount, r.self.balance>>),
               NoOutput)

withdraw_funds(amount) ==
    LET r == withdraw(account, amount)
    IN Handler("withdraw", r,
               Message("Withdrew", <<amount, r.self.balance>>),
               Message("Insufficient funds for withdrawal.", << >>))

buy_shares_click(symbol, quantity) ==
    LET r == buy_shares(account, symbol, quantity)
    IN Handler("buy_shares", r,
               Message("Bought", <<quantity, symbol, r.self.holdings, r.self.balance>>),
               Message("Insufficient funds to buy shares.", << >>))

sell_shares_click(symbol, quantity) ==
    LET r == sell_shares(account, symbol, quantity)
    IN Handler("sell_shares", r,
               Message("Sold", <<quantity, symbol, r.self.holdings, r.self.balance>>),
               Message("Not enough shares to sell.", << >>))

\* a handler that only reads the account
Reader(message, none) ==
    /\ reply' = IF account.isNone THEN none ELSE message
    /\ UNCHANGED <<account, returned>>

portfolio_value ==
    Reader(Message("Total Portfolio Value", <<calculate_portfolio_value(account)>>),
           PleaseCreate)

profit_loss ==
    Reader(Message(IF get_profit_loss(account) >= 0 THEN "Profit" ELSE "Loss",
                   <<get_profit_loss(account)>>),
           PleaseCreate)

\* one line per record, numbered from 1
transaction_history ==
    Reader(IF account.transactions = << >>
           THEN Message("No transactions yet.", << >>)
           ELSE Message("Transaction History:",
                        [i \in 1..Len(account.transactions) |->
                            <<i, account.transactions[i]>>]),
           PleaseCreate)

get_account_status ==
    Reader(Message("Account ID / Balance / Portfolio Value / Profit/Loss / Holdings",
                   <<account.account_id, account.balance,
                     calculate_portfolio_value(account), get_profit_loss(account),
                     account.holdings>>),
           Message("No account created yet.", << >>))

Init ==
    /\ SessionInit
    /\ pc = "idle"
    /\ caller = "nobody"
    /\ events = << >>
    /\ tasks = << >>
    /\ doneq = << >>
    /\ results = << >>
    /\ num_completed = 0
    /\ report = NoReport
    /\ ret = NoReturn
    /\ account = NoAccount
    /\ returned = NoCall
    /\ reply = NoOutput

\* the Generate Questions click (or query submit) of a user in U
GenerateQuestionsBy(U) ==
    \E u \in U :
        \/ GenerateQuestionsCall(u) /\ UNCHANGED <<runVars, acctVars>>
        \/ \E n \in 0..MaxGenerated :
              GenerateQuestionsReturn(u, n) /\ UNCHANGED <<runVars, acctVars>>
        \/ GenerateQuestionsFail(u) /\ UNCHANGED <<runVars, acctVars>>

GenerateQuestions == GenerateQuestionsBy(Users)

RunResearch ==
    \E u \in Runners : \E all_responses \in AllResponses :
        RunResearchWithFilteredInputs(u, all_responses) /\ UNCHANGED acctVars

Planner ==
    \/ \E n \in 0..MaxSearches : PlannerReturns(n) /\ UNCHANGED acctVars
    \/ \E e \in AgentErrors, loop \in LoopStates :
          PlannerRaises(e, loop) /\ UNCHANGED acctVars

SearchTask ==
    \E i \in 1..MaxSearches :
        \/ SearchReturns(i) /\ UNCHANGED acctVars
        \/ SearchRaises(i) /\ UNCHANGED acctVars

Writer ==
    \/ \E r \in Reports : WriterReturns(r) /\ UNCHANGED acctVars
    \/ \E e \in AgentErrors, loop \in LoopStates :
          WriterRaises(e, loop) /\ UNCHANGED acctVars

Email ==
    \/ EmailReturns /\ UNCHANGED acctVars
    \/ \E e \in AgentErrors, loop \in LoopStates :
          EmailRaises(e, loop) /\ UNCHANGED acctVars

Next ==
    \/ GenerateQuestions
    \/ RunResearch
    \/ Planner
    \/ SearchTask
    \/ AsCompletedNext
    \/ PerformSearchesReturn
    \/ Writer
    \/ Email

Spec == Init /\ [][Next]_vars

\* The program with one page open.  The pipeline never reads the session once
\* started, so the second page adds nothing to it.  Fairness for the search
\* stage: every search task ends (the premise of the liveness claim about the
\* stage) and the event loop resumes a coroutine whose awaited future is done.
SoloNext ==
    \/ GenerateQuestionsBy(Runners)
    \/ RunResearch
    \/ Planner
    \/ SearchTask
    \/ AsCompletedNext
    \/ PerformSearchesReturn
    \/ Writer
    \/ Email

PipelineSpec == Init /\ [][SoloNext]_vars

FairSpec ==
    /\ PipelineSpec
    /\ WF_vars(SearchTask)
    /\ WF_vars(AsCompletedNext)
    /\ WF_vars(PerformSearchesReturn)

\* The two callbacks of the page up to the planner call of an accepted click.
\* What a click does depends on the session alone, and the pipeline never
\* writes the session, so every session state a click can meet is met here.
ClickNext ==
    \/ GenerateQuestions
    \/ RunResearch

ClickSpec == Init /\ [][ClickNext]_vars

\* The callbacks of the pages one after the other: a callback starts only when
\* no generate_questions is waiting for its agent.
SequentialNext ==
    \/ \E u \in Users :
          /\ \A v \in Users \ {u} : gen[v] = "idle"
          /\ GenerateQuestionsBy({u})
    \/ (\A v \in Users : gen[v] = "idle") /\ RunResearch

SequentialSpec == Init /\ [][SequentialNext]_vars

\* The Account class driven as its tests drive it: one object, any sequence of
\* method calls.
AccountNext ==
    \/ \E d \in InitialDeposits : NewAccount(d) /\ UNCHANGED <<sessionVars, runVars>>
    \/ \E a \in Amounts : Deposit(a) /\ UNCHANGED <<sessionVars, runVars>>
    \/ \E a \in Amounts : Withdraw(a) /\ UNCHANGED <<sessionVars, runVars>>
    \/ \E s \in Symbols, q \in Quantities :
          BuyShares(s, q) /\ UNCHANGED <<sessionVars, runVars>>
    \/ \E s \in Symbols, q \in Quantities :
          SellShares(s, q) /\ UNCHANGED <<sessionVars, runVars>>

AccountSpec == Init /\ [][AccountNext]_vars

\* ResearchManager.run at a terminal: one run at a time
CliNext ==
    \/ \E u \in Runners : InteractiveRun(QueryOf(u))
    \/ \E n \in 0..MaxGenerated : ProductManagerReturns(n)
    \/ \E i \in 1..MaxGenerated : \E chars \in InputLines(i) :
          Len(typed) + 1 = i /\ InputAnswer(chars)
    \/ \E n \in 0..MaxSearches : PlannerReturns(n) /\ UNCHANGED acctVars
    \/ \E i \in 1..MaxSearches : SearchReturns(i) /\ UNCHANGED acctVars
    \/ \E i \in 1..MaxSearches : SearchRaises(i) /\ UNCHANGED acctVars
    \/ AsCompletedNext
    \/ PerformSearchesReturn
    \/ \E r \in Reports : WriterReturns(r) /\ UNCHANGED acctVars
    \/ InteractiveEmailReturns
    \/ \E stage \in {"collecting", "planning", "writing", "emailing"}, e \in AgentErrors :
          InteractiveRaises(stage, e)

CliSpec == Init /\ [][CliNext]_vars

\* The trading page: any order of button clicks, one handler at a time.
AppNext ==
    \/ \E id \in AccountIds, d \in UIInitialDeposits :
          create_account(id, d) /\ UNCHANGED <<sessionVars, runVars>>
    \/ \E a \in UIAmounts : deposit_funds(a) /\ UNCHANGED <<sessionVars, runVars>>
    \/ \E a \in UIAmounts : withdraw_funds(a) /\ UNCHANGED <<sessionVars, runVars>>
    \/ \E sym \in UISymbols, q \in UIQuantities :
          buy_shares_click(sym, q) /\ UNCHANGED <<sessionVars, runVars>>
    \/ \E sym \in UISymbols, q \in UIQuantities :
          sell_shares_click(sym, q) /\ UNCHANGED <<sessionVars, runVars>>
    \/ portfolio_value /\ UNCHANGED <<sessionVars, runVars>>
    \/ profit_loss /\ UNCHANGED <<sessionVars, runVars>>
    \/ transaction_history /\ UNCHANGED <<sessionVars, runVars>>
    \/ get_account_status /\ UNCHANGED <<sessionVars, runVars>>

AppSpec == Init /\ [][AppNext]_vars

(***************************************************************************)
(* Vocabulary of the properties.                                           *)
(***************************************************************************)
LastEvent == events[Len(events)]
\* the run has ended with agent `a` raising: its call is the last thing that happened
Failed(a) == pc = "idle" /\ events # << >> /\ LastEvent.ev = "call" /\ LastEvent.name = a
\* the run has ended with the generator exhausted
Completed == pc = "idle" /\ ret.kind = "result"
\* _perform_searches has returned
SearchStageDone == CallsTo("writer") # {}
\* the positions in `events` at which task i ended with the given outcome
DoneAt(i, outcome) == {k \in 1..Len(events) : events[k] = Done(i, outcome)}
Succeeded == {i \in DOMAIN tasks : DoneAt(i, "ok") # {}}
Crashed == {i \in DOMAIN tasks : DoneAt(i, "failed") # {}}
\* the transcript the planner was called with
Transcript == calls[1].arg.questions_and_responses
\* the number of answers that hold a character other than whitespace
NonEmptyCount(responses) ==
    Cardinality({i \in DOMAIN responses :
                    /\ ~responses[i].isNone
                    /\ \E k \in DOMAIN responses[i].chars :
                          responses[i].chars[k] \notin Whitespace})
\* what every step of the Run Research click handler does: the properties of
\* that handler look at these steps only
IsClick == pc = "idle" /\ UNCHANGED sessionVars
\* the seven elements of a run in which no stage fails
ExpectedOut ==
    <<TraceURL,
      "Starting research with your responses...",
      "Searches planned, starting to search...",
      "Searches complete, writing report...",
      "Report written, sending email...",
      "Email sent, research complete",
      report.markdown_report>>

(***************************************************************************)
(* C1: when no stage fails, run_with_responses yields exactly the seven    *)
(* elements of ExpectedOut, in that order: what has been yielded is at     *)
(* every moment a prefix of them, and a completed run has yielded all      *)
(* seven and returned them to the caller, whatever order the searches      *)
(* completed in.                                                           *)
(***************************************************************************)
C1_SevenElementsInOrder ==
    /\ Len(out) <= Len(ExpectedOut)
    /\ \A i \in 1..Len(out) : out[i] = ExpectedOut[i]
    /\ Completed => out = ExpectedOut /\ ret.chunks = ExpectedOut

\* a completed run of two successful searches, the second finishing first
C1_Witness ==
    /\ Completed
    /\ Len(tasks) = 2
    /\ results = <<SearchOutput(2), SearchOutput(1)>>

(***************************************************************************)
(* C2: when the email agent raises after the report was written, the run   *)
(* still returns the report: run_research returns the progress text ending *)
(* in the report's markdown, not an error string.  (Stated for the runs    *)
(* that carry at least one answer.)                                        *)
(***************************************************************************)
C2_NotifierFailureSwallowed ==
    (Failed("email") /\ Transcript # << >>) =>
        /\ ret.kind = "result"
        /\ ret.chunks # << >>
        /\ ret.chunks[Len(ret.chunks)] = report.markdown_report

(***************************************************************************)
(* C3: once _perform_searches has returned, its result list holds exactly  *)
(* one entry for every task that succeeded and none for a task that        *)
(* failed, and that list is what the writer receives; the list is never    *)
(* longer than the number of tasks dispatched.                             *)
(***************************************************************************)
C3_ExactlyMResults ==
    /\ Len(results) <= Len(tasks)
    /\ SearchStageDone =>
        /\ Succeeded \cup Crashed = DOMAIN tasks
        /\ Len(results) = Cardinality(Succeeded)
        /\ \A i \in Succeeded :
              Cardinality({k \in DOMAIN results : results[k] = SearchOutput(i)}) = 1
        /\ \A i \in Crashed : \A k \in DOMAIN results : results[k] # SearchOutput(i)
        /\ calls[Len(tasks) + 2].arg.search_results = results

\* two tasks, the first to complete failed and the other succeeded
C3_Witness ==
    /\ SearchStageDone
    /\ Len(tasks) = 2
    /\ Crashed = {2}
    /\ Succeeded = {1}
    /\ \E k \in DoneAt(2, "failed") : \E m \in DoneAt(1, "ok") : k < m

(***************************************************************************)
(* C4: a failing search task ends alone.  In one step of the search stage  *)
(* at most one task changes state, and only from running to ended, so a    *)
(* failure neither ends a sibling nor restarts a task; the search agent is *)
(* called exactly once per planned task; and when the stage is over every  *)
(* task has ended and every task that succeeded has its result in the list.*)
(***************************************************************************)
C4_StepIsolated ==
    (pc = "searching" /\ pc' = "searching") =>
        \A i \in DOMAIN tasks :
            tasks'[i] # tasks[i] =>
                /\ tasks[i] = "running"
                /\ \A j \in DOMAIN tasks \ {i} : tasks'[j] = tasks[j]

C4_OnceEach ==
    /\ pc \in {"searching", "writing", "emailing"} =>
          \A i \in DOMAIN tasks :
              Cardinality({k \in DOMAIN calls : calls[k] = Call("search", i)}) = 1
    /\ SearchStageDone =>
          \A i \in DOMAIN tasks :
              /\ Cardinality(DoneAt(i, "ok") \cup DoneAt(i, "failed")) = 1
              /\ i \in Succeeded => \E k \in DOMAIN results : results[k] = SearchOutput(i)

\* C4: a failed search task ends alone, is called once and never retried, and
\* its siblings still deliver their results
C4_FailureIsolated == [][C4_StepIsolated]_vars /\ []C4_OnceEach

\* a task failed while its sibling was still running, and the sibling's result arrived
C4_Witness ==
    /\ SearchStageDone
    /\ Len(tasks) = 2
    /\ \E k \in DoneAt(1, "failed") : \E m \in DoneAt(2, "ok") : k < m
    /\ results = <<SearchOutput(2)>>

(***************************************************************************)
(* C5: the search stage is a full join.  The writer is called, and         *)
(* "Searches complete, writing report..." is yielded, only when every      *)
(* dispatched task has ended and been counted; and a search stage whose    *)
(* tasks all eventually end is eventually left.                            *)
(***************************************************************************)
C5_Joined ==
    (SearchStageDone \/ \E i \in DOMAIN out : out[i] = "Searches complete, writing report...")
        => /\ \A i \in DOMAIN tasks : tasks[i] # "running"
           /\ num_completed = Len(tasks)
           /\ doneq = << >>

\* C5: the writer is called only after every search task has ended, and the
\* search stage is eventually left
C5_FullJoin == []C5_Joined /\ ((pc = "searching") ~> (pc # "searching"))

\* the writer was called after two tasks
C5_Witness == pc = "writing" /\ Len(tasks) = 2 /\ num_completed = 2

(***************************************************************************)
(* C6: a Run Research click whose responses, as run_research receives      *)
(* them, hold a number of non-empty answers different from the number of   *)
(* current questions returns the validation message with that question     *)
(* count and that answer count, and calls no agent.                        *)
(***************************************************************************)
C6_Step ==
    IsClick =>
        \A u \in Runners : \A a \in AllResponses :
            LET responses == relevant_responses(a, session)
                expected == Len(session.current_questions)
                actual == NonEmptyCount(responses)
            IN (RunResearchWithFilteredInputs(u, a) /\ actual # expected) =>
                  /\ ret' = ValidationMessage(expected, actual)
                  /\ pc' = "idle"
                  /\ events' = << >>

\* C6: every click with a count mismatch is rejected with the two counts and
\* calls no agent
C6_MismatchRejected == [][C6_Step]_vars

\* two questions, one answer: the message names 2 and 1
C6_Witness ==
    /\ pc = "idle"
    /\ ret.kind = "validation"
    /\ ret.expected = 2
    /\ ret.actual = 1
    /\ events = << >>

(***************************************************************************)
(* C7: a Run Research click with no non-empty answer returns the           *)
(* validation message and starts no pipeline, in every session state.      *)
(***************************************************************************)
C7_Step ==
    IsClick =>
        \A u \in Runners : \A a \in AllResponses :
            (RunResearchWithFilteredInputs(u, a)
                /\ NonEmptyCount(relevant_responses(a, session)) = 0) =>
                  /\ ret'.kind = "validation"
                  /\ pc' = "idle"

\* C7: every click with zero non-empty answers is rejected
C7_ZeroAnswersRejected == [][C7_Step]_vars

(***************************************************************************)
(* C8: when the planner or the writer raises, the run is over: no search   *)
(* was dispatched after a planner failure, no email was sent after a       *)
(* writer failure, no report text was yielded, and run_research returns a  *)
(* string that starts with "Error running research".                       *)
(***************************************************************************)
C8_FatalFailure ==
    /\ Failed("planner") =>
          /\ CallsTo("search") = {} /\ CallsTo("writer") = {} /\ CallsTo("email") = {}
          /\ tasks = << >>
    /\ Failed("writer") => CallsTo("email") = {}
    /\ (Failed("planner") \/ Failed("writer")) =>
          /\ ret.kind = "error"
          /\ ret.text[1] = "Error running research: "
          /\ ret.chunks = << >>
          /\ report = NoReport
          /\ \A i \in DOMAIN out : out[i] \notin Reports

\* the writer raised after a search had delivered a result
C8_Witness ==
    /\ Failed("writer")
    /\ Len(results) >= 1
    /\ ret.kind = "error"

(***************************************************************************)
(* C9: a run started by a user who has been shown questions is executed    *)
(* with that user's query and with the questions that user was shown.      *)
(***************************************************************************)
C9_Step ==
    IsClick =>
        \A u \in Runners : \A a \in AllResponses :
            (RunResearchWithFilteredInputs(u, a)
                /\ ui[u].visible /\ ui[u].questions # << >>
                /\ pc' = "planning") =>
                  /\ calls'[1].arg.query = QueryOf(u)
                  /\ Len(Transcript') = Len(ui[u].questions)
                  /\ \A i \in DOMAIN Transcript' :
                        Transcript'[i].question = ui[u].questions[i].question

\* C9: every accepted click runs with the clicking user's own query and questions
C9_RunUsesOwnSession == [][C9_Step]_vars

(***************************************************************************)
(* C10: when a Run Research click is accepted, the transcript given to the *)
(* planner has one line per current question, numbered 1..N in question    *)
(* order, and line i holds question i and the response at position i of    *)
(* the responses run_research received.                                    *)
(***************************************************************************)
C10_Step ==
    IsClick =>
        \A u \in Runners : \A a \in AllResponses :
            (RunResearchWithFilteredInputs(u, a) /\ pc' = "planning") =>
                LET responses == relevant_responses(a, session)
                    questions == session.current_questions
                IN /\ Len(Transcript') = Len(questions)
                   /\ \A i \in 1..Len(questions) :
                         /\ i \in DOMAIN responses
                         /\ Transcript'[i] = [num |-> i,
                                              question |-> questions[i].question,
                                              response |-> a[i]]

\* C10: every accepted click pairs question i with the response at position i
C10_TranscriptPairsByPosition == [][C10_Step]_vars

\* an accepted click with two questions
C10_Witness ==
    /\ pc = "planning"
    /\ Len(Transcript) = 2
    /\ Transcript[2].response = Str(AnswerText(2))

(***************************************************************************)
(* Vocabulary of the properties of Account.                                *)
(***************************************************************************)
\* the quantity of a symbol an account holds, 0 when it has no entry
Held(self, symbol) ==
    IF symbol \in DOMAIN self.holdings THEN self.holdings[symbol] ELSE 0
\* the account is a fresh account after deposit(d) and a successful
\* buy_shares(sym, q), the buy being the call that has just returned
AfterDepositAndBuy ==
    /\ ~account.isNone
    /\ Len(account.transactions) = 3
    /\ account.transactions[2].type = "deposit"
    /\ account.transactions[3].type = "buy"
    /\ returned = [op |-> "buy_shares", ret |-> "True"]
\* what the scenario's buy was worth: q * price(sym)
BoughtValue ==
    account.transactions[3].quantity * get_share_price(account.transactions[3].symbol)

(***************************************************************************)
(* C12: withdraw(amount) with amount above the balance returns False and   *)
(* leaves balance, holdings and transaction log as they were; with amount  *)
(* at most the balance it returns True and the balance drops by exactly    *)
(* amount; deposit(amount) raises the balance by exactly amount.           *)
(***************************************************************************)
C12_Step ==
    \A a \in Amounts :
        /\ (Withdraw(a) /\ a > account.balance) =>
              /\ returned'.ret = "False"
              /\ account' = account
        /\ (Withdraw(a) /\ a <= account.balance) =>
              /\ returned'.ret = "True"
              /\ account'.balance = account.balance - a
        /\ Deposit(a) => account'.balance = account.balance + a

\* C12: withdraw refuses exactly the amounts above the balance and changes
\* nothing then; withdraw and deposit move the balance by exactly the amount
C12_WithdrawAndDeposit == [][C12_Step]_vars

\* the whole balance was withdrawn
C12_Witness ==
    /\ returned = [op |-> "withdraw", ret |-> "True"]
    /\ account.balance = 0
    /\ account.transactions = <<[type |-> "deposit", amount |-> 1000],
                                [type |-> "withdraw", amount |-> 500],
                                [type |-> "withdraw", amount |-> 500]>>

(***************************************************************************)
(* C13: on a fresh account with initial deposit D, after deposit(d) and a  *)
(* successful buy_shares(sym, q), calculate_portfolio_value() is           *)
(* (D + d) + q * price(sym).                                               *)
(***************************************************************************)
C13_PortfolioValueAfterBuy ==
    AfterDepositAndBuy =>
        calculate_portfolio_value(account) =
            (account.transactions[1].amount + account.transactions[2].amount)
            + BoughtValue

(***************************************************************************)
(* C14: get_profit_loss() is 0 on a freshly created account, and after     *)
(* deposit(d) and a successful buy_shares(sym, q) it is                    *)
(* (d + q * price(sym)) - D, D being the initial deposit.                  *)
(***************************************************************************)
C14_ProfitLoss ==
    /\ (~account.isNone /\ returned.op = "__init__") => get_profit_loss(account) = 0
    /\ AfterDepositAndBuy =>
          get_profit_loss(account) =
              (account.transactions[2].amount + BoughtValue)
              - account.transactions[1].amount

(***************************************************************************)
(* C15: buy_shares(sym, q) returns False and changes neither balance,      *)
(* holdings nor log when price(sym) * q exceeds the balance; otherwise it  *)
(* returns True, the balance drops by exactly price(sym) * q and the       *)
(* quantity held of sym grows by exactly q, sym having an entry afterwards.*)
(***************************************************************************)
C15_Step ==
    \A s \in Symbols : \A q \in Quantities :
        BuyShares(s, q) =>
            IF get_share_price(s) * q > account.balance
            THEN /\ returned'.ret = "False"
                 /\ account' = account
            ELSE /\ returned'.ret = "True"
                 /\ account'.balance = account.balance - get_share_price(s) * q
                 /\ s \in DOMAIN account'.holdings
                 /\ account'.holdings[s] = Held(account, s) + q

\* C15: buy_shares refuses exactly the purchases the balance cannot pay and
\* changes nothing then; otherwise it moves the cost and the quantity exactly
C15_BuyShares == [][C15_Step]_vars

\* a purchase was refused, and an earlier one of the same symbol had been made
C15_Witness ==
    /\ returned = [op |-> "buy_shares", ret |-> "False"]
    /\ account.balance = 250
    /\ account.holdings = [s \in {"AAPL"} |-> 5]

(***************************************************************************)
(* C16: sell_shares(sym, q) returns False and changes nothing when sym is  *)
(* not held or fewer than q shares of it are held; otherwise it returns    *)
(* True, the quantity held drops by exactly q, price(sym) * q is credited  *)
(* to the balance, and sym leaves the holdings exactly when its quantity   *)
(* has reached 0.                                                          *)
(***************************************************************************)
C16_Step ==
    \A s \in Symbols : \A q \in Quantities :
        SellShares(s, q) =>
            IF s \notin DOMAIN account.holdings \/ account.holdings[s] < q
            THEN /\ returned'.ret = "False"
                 /\ account' = account
            ELSE /\ returned'.ret = "True"
                 /\ Held(account', s) = account.holdings[s] - q
                 /\ account'.balance = account.balance + get_share_price(s) * q
                 /\ s \in DOMAIN account'.holdings <=> account.holdings[s] - q # 0

\* C16: sell_shares refuses exactly the sales the holdings cannot cover and
\* changes nothing then; otherwise it moves quantity and proceeds exactly and
\* drops a symbol whose quantity reached 0
C16_SellShares == [][C16_Step]_vars

\* the last shares of a symbol were sold and its entry is gone
C16_Witness ==
    /\ returned = [op |-> "sell_shares", ret |-> "True"]
    /\ Len(account.transactions) = 3
    /\ account.transactions[2].type = "buy"
    /\ account.transactions[2].quantity = 5
    /\ account.transactions[3].type = "sell"
    /\ account.transactions[3].quantity = 5
    /\ account.transactions[3].symbol = "AAPL"
    /\ DOMAIN account.holdings = {}

(***************************************************************************)
(* Vocabulary of the properties of the stage order.                        *)
(***************************************************************************)
\* the positions in `events` of the calls of an agent and of a yielded string
CallPos(agent) == {k \in 1..Len(events) : events[k].ev = "call" /\ events[k].name = agent}
YieldPos(v) == {k \in 1..Len(events) : events[k] = Yield(v)}
\* the strings yielded strictly between two positions of `events`
YieldsBetween(a, b) ==
    LET es == SelectEv(SubSeq(events, a + 1, b - 1), "yield")
    IN [i \in 1..Len(es) |-> es[i].name]
\* the stages in pipeline order
StageRank(stage) ==
    CASE stage = "planner" -> 1
      [] stage = "search" -> 2
      [] stage = "writer" -> 3
      [] stage = "email" -> 4
PcRank(p) ==
    CASE p = "planning" -> 1
      [] p = "searching" -> 2
      [] p = "writing" -> 3
      [] p = "emailing" -> 4
      [] OTHER -> 0
\* every call of `agent` comes after the one yield of `v`
Announced(agent, v) ==
    \A k \in CallPos(agent) :
        /\ Cardinality(YieldPos(v)) = 1
        /\ \A y \in YieldPos(v) : y < k

(***************************************************************************)
(* C17: in run_with_responses every stage begins only after the progress   *)
(* string that announces it was yielded: the planner after "Starting       *)
(* research with your responses...", every search after "Searches planned, *)
(* starting to search...", the writer after "Searches complete, writing    *)
(* report...", the email after "Report written, sending email...".         *)
(* Exactly one progress string lies between the calls of consecutive       *)
(* stages, and the stages only move forward.                               *)
(***************************************************************************)
C17_Announced ==
    /\ Announced("planner", "Starting research with your responses...")
    /\ Announced("search", "Searches planned, starting to search...")
    /\ Announced("writer", "Searches complete, writing report...")
    /\ Announced("email", "Report written, sending email...")
    /\ \A p \in CallPos("planner") : \A w \in CallPos("writer") :
          /\ \A k \in CallPos("search") :
                /\ YieldsBetween(p, k) = <<"Searches planned, starting to search...">>
                /\ YieldsBetween(k, w) = <<"Searches complete, writing report...">>
          /\ YieldsBetween(p, w) = <<"Searches planned, starting to search...",
                                     "Searches complete, writing report...">>
    /\ \A w \in CallPos("writer") : \A e \in CallPos("email") :
          YieldsBetween(w, e) = <<"Report written, sending email...">>
    /\ \A i, j \in DOMAIN calls :
          i < j => /\ StageRank(calls[i].name) <= StageRank(calls[j].name)
                   /\ calls[i].name = calls[j].name => calls[i].name = "search"

C17_Forward ==
    (pc # "idle" /\ pc' # "idle") => PcRank(pc') \in {PcRank(pc), PcRank(pc) + 1}

\* C17: each stage starts after the progress string announcing it, one string
\* between consecutive stages, stages only forward
C17_StagesAnnounced == []C17_Announced /\ [][C17_Forward]_vars

\* the email was sent in a run with two searches
C17_Witness ==
    /\ pc = "emailing"
    /\ Len(tasks) = 2
    /\ CallPos("email") # {}

(***************************************************************************)
(* C18: the writer is called at most once in a run and exactly once in a   *)
(* run that completes; the report is given to the email agent before it is *)
(* yielded; and the report text is the last element of the run, nothing    *)
(* being yielded after it.                                                 *)
(***************************************************************************)
C18_ReportOnceAndLast ==
    /\ Cardinality(CallPos("writer")) <= 1
    /\ Completed => Cardinality(CallPos("writer")) = 1
    /\ \A r \in Reports : \A y \in YieldPos(r) :
          /\ r = report.markdown_report
          /\ \E e \in CallPos("email") : e < y /\ events[e].arg = r
          /\ \A k \in (y + 1)..Len(events) : events[k].ev # "yield"
    /\ Completed =>
          /\ out # << >>
          /\ out[Len(out)] = report.markdown_report
          /\ ret.chunks[Len(ret.chunks)] = report.markdown_report
          /\ Cardinality(YieldPos(report.markdown_report)) = 1

\* a completed run whose report is "report B"
C18_Witness ==
    /\ Completed
    /\ report.markdown_report = "report B"
    /\ YieldPos("report B") = {Len(events)}

(***************************************************************************)
(* C19: when a stage fails after k progress updates were yielded, what     *)
(* run_research returns consists of those k updates followed by the        *)
(* formatted error string; the progress made is not lost.  (Stated for the *)
(* runs that carry at least one answer.)                                   *)
(***************************************************************************)
C19_ProgressKept ==
    \A a \in {"planner", "writer", "email"} :
        (Failed(a) /\ Transcript # << >>) =>
            /\ ret.kind = "error"
            /\ ret.chunks = out

(***************************************************************************)
(* C20: a search stage in which every search failed, or whose plan is      *)
(* empty, does not fail the run: _perform_searches returns the empty list, *)
(* the writer is called with it, and the run goes on to the email.         *)
(***************************************************************************)
NoSearchSucceeds == \A i \in DOMAIN tasks : tasks[i] = "failed"

C20_EmptyResults ==
    /\ (SearchStageDone /\ NoSearchSucceeds) =>
          /\ results = << >>
          /\ \A w \in CallPos("writer") : events[w].arg.search_results = << >>
    /\ (pc = "emailing" /\ NoSearchSucceeds) =>
          /\ CallPos("email") # {}
          /\ ret.kind # "error"

C20_StageNeverFails == pc = "searching" => pc' \in {"searching", "writing"}

\* C20: with no successful search the stage still ends, and the writer and
\* then the email agent are called with an empty result set behind them
C20_ProceedsWithoutResults ==
    /\ []C20_EmptyResults
    /\ [][C20_StageNeverFails]_vars
    /\ (pc = "searching" /\ NoSearchSucceeds) ~> (pc = "writing" /\ results = << >>)

\* the email is being sent in a run whose two searches both failed
C20_Witness ==
    /\ pc = "emailing"
    /\ Len(tasks) = 2
    /\ Crashed = {1, 2}
    /\ results = << >>

(***************************************************************************)
(* C11: in the interactive run every collected answer is trimmed and must  *)
(* be non-empty: when an answer is empty after trimming, the planner is    *)
(* not called.                                                             *)
(***************************************************************************)
C11_InteractiveAnswersValidated ==
    caller = "cli" =>
        /\ \A p \in CallPos("planner") :
              \A i \in DOMAIN events[p].arg.questions_and_responses :
                 LET response == events[p].arg.questions_and_responses[i].response
                 IN /\ response.chars = strip(response.chars)
                    /\ response.chars # << >>
        /\ (\E k \in DOMAIN typed : strip(typed[k].name) = << >>) =>
              CallPos("planner") = {}

(***************************************************************************)
(* C21: the list _perform_searches builds is in completion order: of two   *)
(* results in it, the one whose task ended earlier comes first, whatever   *)
(* the tasks' positions in the plan.                                       *)
(***************************************************************************)
C21_CompletionOrder ==
    \A k, m \in DOMAIN results : \A i, j \in DOMAIN tasks :
        (k < m /\ results[k] = SearchOutput(i) /\ results[m] = SearchOutput(j)) =>
            \A di \in DoneAt(i, "ok") : \A dj \in DoneAt(j, "ok") : di < dj

\* the second search of the plan ended first and its result is first in the list
C21_Witness ==
    /\ pc = "writing"
    /\ \E d2 \in DoneAt(2, "ok") : \E d1 \in DoneAt(1, "ok") : d2 < d1
    /\ results = <<SearchOutput(2), SearchOutput(1)>>

(***************************************************************************)
(* C22: the two collection strategies give the same transcript: for the    *)
(* questions of the session and the answers the user typed, the transcript *)
(* of an accepted Run Research click is the transcript the interactive     *)
(* collector builds from the same questions and the same typed lines, one  *)
(* line per question with the answer trimmed.                              *)
(***************************************************************************)
C22_Step ==
    IsClick =>
        \A u \in Runners : \A a \in AllResponses :
            (RunResearchWithFilteredInputs(u, a) /\ pc' = "planning") =>
                LET n == Len(session.current_questions)
                    lines == [i \in 1..n |-> a[i].chars]
                IN Transcript' =
                       _interactive_question_collection(session.current_questions, lines)

\* C22: every accepted click carries the transcript the interactive collector
\* would have built from the same questions and answers
C22_SameTranscript == [][C22_Step]_vars

(***************************************************************************)
(* C23: whenever no generate_questions call is in progress, the questions  *)
(* and the response components of the session are those generated for the  *)
(* query of the session, and the planner is never called with a query and  *)
(* questions generated for another query.                                  *)
(***************************************************************************)
C23_SessionConsistent ==
    /\ (\A u \in Users : gen[u] = "idle") =>
          /\ \A i \in DOMAIN session.current_questions :
                session.current_questions[i].question[1] = session.current_query
          /\ session.response_components =
                 _create_response_components(session.current_questions)
    /\ \A p \in CallPos("planner") :
          \A i \in DOMAIN events[p].arg.questions_and_responses :
              events[p].arg.questions_and_responses[i].question[1] = events[p].arg.query

(***************************************************************************)
(* Vocabulary of the properties of the transaction log.                    *)
(***************************************************************************)
RECURSIVE NetDeposits(_)
\* the deposits of a log minus its withdrawals
NetDeposits(log) ==
    IF log = << >> THEN 0
    ELSE LET t == Head(log)
         IN (CASE t.type = "deposit" -> t.amount
               [] t.type = "withdraw" -> 0 - t.amount
               [] OTHER -> 0)
            + NetDeposits(Tail(log))
\* the types of the records of a log, in order
LogTypes(log) == [i \in 1..Len(log) |-> log[i].type]

(***************************************************************************)
(* C24: share prices being fixed, buy_shares and sell_shares leave         *)
(* calculate_portfolio_value() as it was, and after any sequence of        *)
(* operations the portfolio value is the initial deposit plus the deposits *)
(* minus the successful withdrawals.                                       *)
(***************************************************************************)
C24_TradeKeepsValue ==
    (~account.isNone /\ \E sym \in Symbols : \E q \in Quantities :
                            BuyShares(sym, q) \/ SellShares(sym, q)) =>
        calculate_portfolio_value(account') = calculate_portfolio_value(account)

C24_ValueIsNetDeposits ==
    ~account.isNone =>
        calculate_portfolio_value(account) = NetDeposits(account.transactions)

C26_Step ==
    /\ \A d \in InitialDeposits :
          NewAccount(d) =>
              account'.transactions = <<[type |-> "deposit", amount |-> d]>>
    /\ ~account.isNone =>
          /\ Len(account'.transactions) >= Len(account.transactions)
          /\ SubSeq(account'.transactions, 1, Len(account.transactions))
                 = account.transactions
    /\ \A a \in Amounts :
          /\ Deposit(a) =>
                account'.transactions =
                    Append(account.transactions, [type |-> "deposit", amount |-> a])
          /\ Withdraw(a) =>
                account'.transactions =
                    IF returned'.ret = "True"
                    THEN Append(account.transactions, [type |-> "withdraw", amount |-> a])
                    ELSE account.transactions
    /\ \A sym \in Symbols : \A q \in Quantities :
          /\ BuyShares(sym, q) =>
                account'.transactions =
                    IF returned'.ret = "True"
                    THEN Append(account.transactions,
                                [type |-> "buy", symbol |-> sym, quantity |-> q,
                                 price |-> get_share_price(sym)])
                    ELSE account.transactions
          /\ SellShares(sym, q) =>
                account'.transactions =
                    IF returned'.ret = "True"
                    THEN Append(account.transactions,
                                [type |-> "sell", symbol |-> sym, quantity |-> q,
                                 price |-> get_share_price(sym)])
                    ELSE account.transactions

\* C26: the log only grows, by one record of its type per successful
\* operation and by nothing per rejected one
C26_LogAppendOnly == [][C26_Step]_vars

\* a deposit, a withdrawal and a purchase are in the log, and a sale was just
\* rejected without a record
C26_Witness ==
    /\ ~account.isNone
    /\ LogTypes(account.transactions) = <<"deposit", "withdraw", "buy">>
    /\ returned = [op |-> "sell_shares", ret |-> "False"]

(***************************************************************************)
(* C25: with the amounts (at least 0) and the share quantities (at least   *)
(* 1) the page's sliders allow, the balance is never negative and every    *)
(* symbol in the holdings has a quantity above 0.                          *)
(***************************************************************************)
C25_NeverOverdrawn ==
    ~account.isNone =>
        /\ account.balance >= 0
        /\ \A sym \in DOMAIN account.holdings : account.holdings[sym] > 0

\* the balance is exhausted while shares are held
C25_Witness ==
    /\ ~account.isNone
    /\ account.balance = 0
    /\ account.initial_deposit = 1000
    /\ account.holdings = [sym \in {"XYZ"} |-> 5]

(***************************************************************************)
(* C27: a handler other than create_account that fires while no account    *)
(* exists returns the create-an-account-first (or no-account) message and  *)
(* leaves the global account unset; create_account installs a fresh        *)
(* account (balance equal to the initial deposit, no holdings, one         *)
(* transaction); and every later handler acts on that account until the    *)
(* next create_account.                                                    *)
(***************************************************************************)
IsCreateAccount ==
    \E id \in AccountIds : \E d \in UIInitialDeposits : create_account(id, d)

NoAccountReplies == {PleaseCreate, Message("No account created yet.", << >>)}

C27_Step ==
    /\ (account.isNone /\ ~IsCreateAccount) =>
          /\ account' = NoAccount
          /\ reply' \in NoAccountReplies
    /\ \A id \in AccountIds : \A d \in UIInitialDeposits :
          create_account(id, d) =>
              /\ account'.account_id = id
              /\ account'.balance = d
              /\ account'.initial_deposit = d
              /\ DOMAIN account'.holdings = {}
              /\ account'.transactions = <<[type |-> "deposit", amount |-> d]>>
    /\ (~account.isNone /\ ~IsCreateAccount) =>
          /\ ~account'.isNone
          /\ account'.account_id = account.account_id
          /\ account'.initial_deposit = account.initial_deposit
          /\ SubSeq(account'.transactions, 1, Len(account.transactions))
                 = account.transactions
          /\ reply' \notin NoAccountReplies
          /\ reply'.text = "Account ID / Balance / Portfolio Value / Profit/Loss / Holdings"
                => reply'.args[1] = account.account_id

\* C27: without an account every other handler only answers that there is
\* none; create_account starts a fresh account and the handlers act on it
C27_HandlersUseCurrentAccount == [][C27_Step]_vars

\* the status button was pressed before any account was created
C27_Witness ==
    /\ account.isNone
    /\ reply = Message("No account created yet.", << >>)


=============================================================================
